---- MODULE Spec2Model ----
(***************************************************************************)
(* Model of src/src/components/SpeechifyApp.tsx: the React component that  *)
(* drives the browser speech engine (window.speechSynthesis).              *)
(*                                                                         *)
(* The component's useState / useRef cells are the variables; every event  *)
(* handler and every utterance callback is one atomic action (React runs   *)
(* them on the single UI thread and re-renders in between).  The speech    *)
(* engine is the environment: it holds the utterances submitted by         *)
(* speak(), a paused flag and a voice list, and delivers the callbacks.    *)
(* What an engine does with a cancelled utterance differs between          *)
(* browsers (an error event, an end event or nothing, possibly after a     *)
(* boundary event that was already on its way), so a cancelled utterance   *)
(* may still deliver those callbacks, in any order the engine allows.      *)
(*                                                                         *)
(* The handlers are operations that may run in every state: the disabled   *)
(* attributes of the buttons (lines 202, 213, 223) are not part of them.   *)
(* progressBy and ev are history variables; no action reads them.  ev      *)
(* lists the commands a handler gives the engine (cancel, speak, pause,    *)
(* resume) and its toasts; reading the voice list is no command.           *)
(*                                                                         *)
(* Spec runs the playback operations and the callbacks.  SpecSettings adds *)
(* the speed and voice pickers, SpecVoices the engine's changing voice     *)
(* list and the voiceschanged listener, SpecTeardown the unmount, and      *)
(* SpecFair is Spec with an engine that keeps delivering.  The effect of   *)
(* lines 31-56 runs with the render that follows a handler, before the     *)
(* next event.                                                             *)
(***************************************************************************)
EXTENDS Integers, Sequences, FiniteSets, TLC

(***************************************************************************)
(* Bounds of the model.                                                    *)
(***************************************************************************)
\* number of utterances created by fresh play() calls in one behaviour
MaxUtterances == 2

(***************************************************************************)
(* Texts are sequences of characters.                                      *)
(***************************************************************************)
WhiteSpace == {" ", "\t", "\n"}

TextEmpty == << >>
TextBlank == <<" ", "\n">>
TextHello == <<"H", "e", "l", "l", "o", " ", "w", "o", "r", "l", "d">>
TextOne   == <<"a">>
TextLead  == <<" ", "a", "\t", "b">>

\* the texts the user types in this model
Texts == {TextEmpty, TextBlank, TextHello, TextLead}

IsSpace(c) == c \in WhiteSpace

\* String.prototype.trim: drop leading and trailing white space
RECURSIVE trimStart(_)
trimStart(s) ==
  IF s # << >> /\ IsSpace(Head(s)) THEN trimStart(Tail(s)) ELSE s

RECURSIVE trimEnd(_)
trimEnd(s) ==
  IF s # << >> /\ IsSpace(s[Len(s)]) THEN trimEnd(SubSeq(s, 1, Len(s) - 1)) ELSE s

trim(s) == trimEnd(trimStart(s))

\* a blank test that forgets trim(): white space counts as text
IsBlankUntrimmed(s) == s = << >>

\* !text.trim(): the empty string is falsy
IsBlank(s) == trim(s) = << >>

\* first index >= i of s that is not white space (Len(s) + 1 when none)
RECURSIVE RunEnd(_, _)
RunEnd(s, i) ==
  IF i <= Len(s) /\ IsSpace(s[i]) THEN RunEnd(s, i + 1) ELSE i

\* text.split(/\s+/): cut at every maximal run of white space; a leading or
\* trailing run leaves an empty token, and "" splits into [""]
RECURSIVE SplitFrom(_, _, _, _)
SplitFrom(s, i, cur, acc) ==
  IF i > Len(s) THEN Append(acc, cur)
  ELSE IF IsSpace(s[i]) THEN SplitFrom(s, RunEnd(s, i), << >>, Append(acc, cur))
  ELSE SplitFrom(s, i + 1, Append(cur, s[i]), acc)

split(s) == SplitFrom(s, 1, << >>, << >>)

(***************************************************************************)
(* Progress arithmetic.  The code computes in IEEE doubles                 *)
(*   wordIndex       = Math.floor(charIndex / (text.length / words.length))*)
(*   progressPercent = (wordIndex / words.length) * 100                    *)
(* The model computes the word index in exact integer arithmetic, which    *)
(* agrees with the doubles for every text length and token count of Texts, *)
(* and keeps the percentage as an exact fraction in lowest terms.          *)
(***************************************************************************)
RECURSIVE Gcd(_, _)
Gcd(a, b) == IF b = 0 THEN a ELSE Gcd(b, a % b)

\* the number num/den, den > 0, in lowest terms
Frac(num, den) ==
  LET g == Gcd(num, den)
  IN  IF num = 0 THEN [num |-> 0, den |-> 1]
      ELSE [num |-> num \div g, den |-> den \div g]

Pct(n) == Frac(n, 1)

\* p <= q for fractions with positive denominators
FracLeq(p, q) == p.num * q.den <= q.num * p.den

\* a word index wrapped into the token list: the last position maps to word 0
WordIndexWrapped(charIndex, textLength, tokenCount) ==
  ((charIndex * tokenCount) \div textLength) % tokenCount

\* Math.floor(charIndex / (textLength / tokenCount))
WordIndex(charIndex, textLength, tokenCount) ==
  (charIndex * tokenCount) \div textLength

\* a percentage that counts the current word as already spoken
ProgressPercentOneBased(charIndex, textLength, tokenCount) ==
  Frac(100 * (WordIndex(charIndex, textLength, tokenCount) + 1), tokenCount)

\* (wordIndex / tokenCount) * 100
ProgressPercent(charIndex, textLength, tokenCount) ==
  Frac(100 * WordIndex(charIndex, textLength, tokenCount), tokenCount)

(***************************************************************************)
(* Speeds and voices.                                                      *)
(***************************************************************************)
\* the values of speedOptions the user picks in this model
Speeds == {"1", "1.5"}

\* parseFloat(speed) for the values of speedOptions, in hundredths
parseFloat(s) ==
  CASE s = "0.5"  -> 50
    [] s = "0.75" -> 75
    [] s = "1"    -> 100
    [] s = "1.25" -> 125
    [] s = "1.5"  -> 150
    [] s = "1.75" -> 175
    [] s = "2"    -> 200

LangEnUS == <<"e", "n", "-", "U", "S">>
LangEnAU == <<"e", "n", "-", "A", "U">>
LangFr   == <<"f", "r", "-", "F", "R">>

\* SpeechSynthesisVoice objects of the engine
VoiceAlice == [name |-> "Alice", lang |-> LangEnUS, voiceURI |-> "alice", localService |-> TRUE]
VoiceBob   == [name |-> "Bob", lang |-> LangEnUS, voiceURI |-> "bob", localService |-> FALSE]
VoiceChloe == [name |-> "Chloe", lang |-> LangFr, voiceURI |-> "chloe", localService |-> TRUE]
VoiceDave  == [name |-> "Dave", lang |-> LangEnAU, voiceURI |-> "dave", localService |-> TRUE]

\* the lists speechSynthesis.getVoices() returns in this model
VoiceLists ==
  { << >>,
    <<VoiceChloe, VoiceBob, VoiceAlice>>,
    <<VoiceDave, VoiceChloe>> }

\* voice.lang.startsWith('en')
startsWith(s, prefix) ==
  Len(s) >= Len(prefix) /\ SubSeq(s, 1, Len(prefix)) = prefix

\* Array.prototype.find, as the index of the element found: the least index
\* among hits (the indices whose element passes the test), or 0 when find
\* returns undefined
findFirst(hits) ==
  IF hits # {} THEN CHOOSE i \in hits : \A j \in hits : i <= j ELSE 0

\* the Voice shape of the component: name, lang, voiceURI
voiceList(availableVoices) ==
  [i \in 1..Len(availableVoices) |->
     [name |-> availableVoices[i].name,
      lang |-> availableVoices[i].lang,
      voiceURI |-> availableVoices[i].voiceURI]]

IsDefaultCandidate(voice) == startsWith(voice.lang, <<"e", "n">>) /\ voice.localService

\* availableVoices.find(voice => voice.lang.startsWith('en') && voice.localService)
findDefaultVoice(availableVoices) ==
  findFirst({i \in 1..Len(availableVoices) : IsDefaultCandidate(availableVoices[i])})

\* list.find(v => v.voiceURI === uri)
findVoiceByURI(list, uri) ==
  findFirst({i \in 1..Len(list) : list[i].voiceURI = uri})

\* a loadVoices that takes the default whenever the list has one
SelectionAfterLoadAlways(availableVoices, selected) ==
  LET defaultVoice == findDefaultVoice(availableVoices)
  IN  IF defaultVoice # 0
      THEN availableVoices[defaultVoice].voiceURI
      ELSE selected

\* the selection loadVoices leaves: the first English local voice when one
\* exists and nothing is selected ('' is falsy), the selection otherwise
SelectionAfterLoad(availableVoices, selected) ==
  LET defaultVoice == findDefaultVoice(availableVoices)
  IN  IF defaultVoice # 0 /\ selected = ""
      THEN availableVoices[defaultVoice].voiceURI
      ELSE selected

(***************************************************************************)
(* State.                                                                  *)
(***************************************************************************)
VARIABLES
  text,             \* useState('')
  isPlaying,        \* useState(false)
  isPaused,         \* useState(false)
  speed,            \* useState('1')
  selectedVoice,    \* useState('')
  voices,           \* useState([])
  progress,         \* useState(0), a fraction
  currentPosition,  \* useState(0)
  synthRef,         \* useRef(null): index in utts of the last utterance, 0 for null
  wordsRef,         \* useRef([]): the token list
  utts,             \* every utterance given to speak(), with the text its callbacks closed over
  enginePaused,     \* speechSynthesis.paused
  engineVoices,     \* what speechSynthesis.getVoices() returns
  mounted,          \* the component is on the page: its effect's cleanup has not run
  progressBy,       \* history: the utterance whose word boundary wrote progress last,
                    \* 0 when stop, completion or the initial value did
  ev                \* history: the last operation, the engine calls and toasts it
                    \* made, the playback state and the progress it started from

session == <<text, isPlaying, isPaused, speed, selectedVoice, voices, progress,
             currentPosition, synthRef, wordsRef>>
engine  == <<utts, enginePaused, engineVoices>>
vars    == <<text, isPlaying, isPaused, speed, selectedVoice, voices, progress,
             currentPosition, synthRef, wordsRef, utts, enginePaused, engineVoices,
             mounted, progressBy, ev>>

\* the PlaybackState the two flags stand for
StateOf(playing, paused) ==
  IF playing /\ paused THEN "PlayingAndPaused"
  ELSE IF playing THEN "Playing"
  ELSE IF paused THEN "Paused"
  ELSE "Idle"

State == StateOf(isPlaying, isPaused)

ToastNoText    == "toast: No text to read"
ToastCompleted == "toast: Playback completed"
ToastError     == "toast: Playback error"

IsToast(c) == c \in {ToastNoText, ToastCompleted, ToastError}

\* the record of an operation: u is the utterance a callback belongs to (0 for
\* a user operation), arg the name of a boundary event ("" otherwise)
Event(op, u, arg, calls) ==
  [op |-> op, u |-> u, arg |-> arg, calls |-> calls, from |-> State,
   was |-> progress, by |-> progressBy]

\* an utterance the engine has finished with
DoneUtt == [text |-> << >>, rate |-> 0, voice |-> "null", st |-> "done",
            origin |-> "Idle"]

Init ==
  /\ text = << >>
  /\ isPlaying = FALSE
  /\ isPaused = FALSE
  /\ speed = "1"
  /\ progress = Pct(0)
  /\ currentPosition = 0
  /\ synthRef = 0
  /\ wordsRef = << >>
  /\ utts = << >>
  /\ enginePaused = FALSE
  /\ engineVoices = <<VoiceChloe, VoiceBob, VoiceAlice>>
  /\ mounted = TRUE
  \* the mount effect has run loadVoices once
  /\ voices = voiceList(engineVoices)
  /\ selectedVoice = SelectionAfterLoad(engineVoices, "")
  /\ progressBy = 0
  /\ ev = [op |-> "mount", u |-> 0, arg |-> "", calls |-> << >>, from |-> "Idle",
           was |-> Pct(0), by |-> 0]

(***************************************************************************)
(* The speech engine's methods.                                            *)
(***************************************************************************)
\* speechSynthesis.cancel(): every utterance leaves the queue; one that was
\* being spoken stops.  What the engine no longer reads of a removed
\* utterance (rate, voice, and the text of one that never started) is dropped.
Cancelled(us) ==
  [u \in DOMAIN us |->
     IF us[u].st = "queued"
     THEN [DoneUtt EXCEPT !.st = "cancelledQueued"]
     ELSE IF us[u].st = "speaking"
     THEN [DoneUtt EXCEPT !.st = "cancelledSpeaking", !.text = us[u].text]
     ELSE us[u]]

\* the paused flag after cancel(): the Web Speech API leaves it as it is,
\* Chromium's controller clears it
PausedAfterCancel(paused) == {paused, FALSE}

\* the utterances the engine holds: queued or being spoken
InFlight == {u \in DOMAIN utts : utts[u].st \in {"queued", "speaking"}}

(***************************************************************************)
(* User operations.                                                        *)
(***************************************************************************)
\* onChange of the text area
setText(s) ==
  /\ mounted
  /\ text' = s
  /\ ev' = Event("setText", 0, "", << >>)
  /\ UNCHANGED <<mounted, isPlaying, isPaused, speed, selectedVoice, voices, progress,
                 currentPosition, synthRef, wordsRef, engine, progressBy>>

\* a speed picker that also sets the rate of the utterance in the engine
setSpeedLive(s) ==
  /\ mounted
  /\ speed' = s
  /\ utts' = [u \in DOMAIN utts |->
                IF utts[u].st \in {"queued", "speaking"}
                THEN [utts[u] EXCEPT !.rate = parseFloat(s)]
                ELSE utts[u]]
  /\ ev' = Event("setSpeed", 0, "", << >>)
  /\ UNCHANGED <<mounted, text, isPlaying, isPaused, selectedVoice, voices, progress,
                 currentPosition, synthRef, wordsRef, enginePaused, engineVoices,
                 progressBy>>

\* onValueChange of the speed picker
setSpeed(s) ==
  /\ mounted
  /\ speed' = s
  /\ ev' = Event("setSpeed", 0, "", << >>)
  /\ UNCHANGED <<mounted, text, isPlaying, isPaused, selectedVoice, voices, progress,
                 currentPosition, synthRef, wordsRef, engine, progressBy>>

\* onValueChange of the voice picker: the items are the voices of the list.
\* A changed selection re-runs the effect, whose loadVoices reads the list again.
setSelectedVoice(id) ==
  /\ mounted
  /\ \E i \in 1..Len(voices) : voices[i].voiceURI = id
  /\ selectedVoice' = SelectionAfterLoad(engineVoices, id)
  /\ voices' = IF id # selectedVoice THEN voiceList(engineVoices) ELSE voices
  /\ ev' = Event("setVoice", 0, "", << >>)
  /\ UNCHANGED <<mounted, text, isPlaying, isPaused, speed, progress, currentPosition,
                 synthRef, wordsRef, engine, progressBy>>

\* handlePlay, text blank: a toast and nothing else
handlePlayBlank ==
  /\ mounted
  /\ IsBlank(text)
  /\ ev' = Event("play", 0, "", <<ToastNoText>>)
  /\ UNCHANGED <<mounted, session, engine, progressBy>>

\* a resume that forgets setIsPaused(false)
handlePlayResumeStillPaused ==
  /\ mounted
  /\ ~IsBlank(text)
  /\ isPaused
  /\ enginePaused' = FALSE
  /\ isPlaying' = TRUE
  /\ ev' = Event("play", 0, "", <<"resume">>)
  /\ UNCHANGED <<mounted, text, isPaused, speed, selectedVoice, voices, progress,
                 currentPosition, synthRef, wordsRef, utts, engineVoices,
                 progressBy>>

\* a resume that splits the text again
handlePlayResumeResplits ==
  /\ mounted
  /\ ~IsBlank(text)
  /\ isPaused
  /\ enginePaused' = FALSE
  /\ isPaused' = FALSE
  /\ isPlaying' = TRUE
  /\ wordsRef' = split(text)
  /\ ev' = Event("play", 0, "", <<"resume">>)
  /\ UNCHANGED <<mounted, text, speed, selectedVoice, voices, progress,
                 currentPosition, synthRef, utts, engineVoices, progressBy>>

\* handlePlay, paused: resume the utterance
handlePlayResume ==
  /\ mounted
  /\ ~IsBlank(text)
  /\ isPaused
  /\ enginePaused' = FALSE
  /\ isPaused' = FALSE
  /\ isPlaying' = TRUE
  /\ ev' = Event("play", 0, "", <<"resume">>)
  /\ UNCHANGED <<mounted, text, speed, selectedVoice, voices, progress, currentPosition,
                 synthRef, wordsRef, utts, engineVoices, progressBy>>

\* an utterance.voice taken from the selection without looking it up
utteranceVoiceUnchecked ==
  IF selectedVoice # "" THEN selectedVoice ELSE "null"

\* utterance.voice: the engine's voice with the selected URI when the
\* component's list has it too, null (the engine's default) otherwise
utteranceVoice ==
  IF selectedVoice # ""
  THEN LET voice == findVoiceByURI(voices, selectedVoice)
       IN  IF voice # 0
           THEN LET found == findVoiceByURI(engineVoices, voices[voice].voiceURI)
                IN  IF found # 0 THEN engineVoices[found].voiceURI ELSE "null"
           ELSE "null"
  ELSE "null"

\* new SpeechSynthesisUtterance(text) as configured by handlePlay; origin is
\* the playback state handlePlay ran in
newUtterance ==
  [text |-> text, rate |-> parseFloat(speed), voice |-> utteranceVoice,
   st |-> "queued", origin |-> State]

\* a fresh play that sets isPlaying at once instead of waiting for onstart
handlePlayFreshEager ==
  /\ mounted
  /\ ~IsBlank(text)
  /\ ~isPaused
  /\ Len(utts) < MaxUtterances
  /\ utts' = Append(Cancelled(utts), newUtterance)
  /\ enginePaused' \in PausedAfterCancel(enginePaused)
  /\ wordsRef' = split(text)
  /\ synthRef' = Len(utts) + 1
  /\ isPlaying' = TRUE
  /\ ev' = Event("play", 0, "", <<"cancel", "speak">>)
  /\ UNCHANGED <<mounted, text, isPaused, speed, selectedVoice, voices, progress,
                 currentPosition, engineVoices, progressBy>>

\* a fresh play that speaks without cancelling first
handlePlayFreshNoCancel ==
  /\ mounted
  /\ ~IsBlank(text)
  /\ ~isPaused
  /\ Len(utts) < MaxUtterances
  /\ utts' = Append(utts, newUtterance)
  /\ wordsRef' = split(text)
  /\ synthRef' = Len(utts) + 1
  /\ ev' = Event("play", 0, "", <<"speak">>)
  /\ UNCHANGED <<mounted, text, isPlaying, isPaused, speed, selectedVoice, voices,
                 progress, currentPosition, enginePaused, engineVoices, progressBy>>

\* handlePlay, otherwise: cancel, build the utterance, speak
handlePlayFresh ==
  /\ mounted
  /\ ~IsBlank(text)
  /\ ~isPaused
  /\ Len(utts) < MaxUtterances
  /\ utts' = Append(Cancelled(utts), newUtterance)
  /\ enginePaused' \in PausedAfterCancel(enginePaused)
  /\ wordsRef' = split(text)
  /\ synthRef' = Len(utts) + 1
  /\ ev' = Event("play", 0, "", <<"cancel", "speak">>)
  /\ UNCHANGED <<mounted, text, isPlaying, isPaused, speed, selectedVoice, voices,
                 progress, currentPosition, engineVoices, progressBy>>

handlePlay == handlePlayBlank \/ handlePlayResume \/ handlePlayFresh

\* a pause without the isPlaying test
handlePauseUnguarded ==
  /\ mounted
  /\ enginePaused' = TRUE
  /\ isPlaying' = FALSE
  /\ isPaused' = TRUE
  /\ ev' = Event("pause", 0, "", <<"pause">>)
  /\ UNCHANGED <<mounted, text, speed, selectedVoice, voices, progress, currentPosition,
                 synthRef, wordsRef, utts, engineVoices, progressBy>>

\* a pause that forgets setIsPlaying(false)
handlePauseStillPlaying ==
  /\ mounted
  /\ IF isPlaying
     THEN /\ enginePaused' = TRUE
          /\ isPaused' = TRUE
          /\ ev' = Event("pause", 0, "", <<"pause">>)
     ELSE /\ UNCHANGED <<enginePaused, isPaused>>
          /\ ev' = Event("pause", 0, "", << >>)
  /\ UNCHANGED <<mounted, isPlaying, text, speed, selectedVoice, voices, progress,
                 currentPosition, synthRef, wordsRef, utts, engineVoices, progressBy>>

handlePause ==
  /\ mounted
  /\ IF isPlaying
     THEN /\ enginePaused' = TRUE
          /\ isPlaying' = FALSE
          /\ isPaused' = TRUE
          /\ ev' = Event("pause", 0, "", <<"pause">>)
     ELSE /\ UNCHANGED <<enginePaused, isPlaying, isPaused>>
          /\ ev' = Event("pause", 0, "", << >>)
  /\ UNCHANGED <<mounted, text, speed, selectedVoice, voices, progress, currentPosition,
                 synthRef, wordsRef, utts, engineVoices, progressBy>>

\* a stop that forgets setProgress(0)
handleStopKeepsProgress ==
  /\ mounted
  /\ utts' = Cancelled(utts)
  /\ enginePaused' \in PausedAfterCancel(enginePaused)
  /\ isPlaying' = FALSE
  /\ isPaused' = FALSE
  /\ currentPosition' = 0
  /\ ev' = Event("stop", 0, "", <<"cancel">>)
  /\ UNCHANGED <<mounted, progress, text, speed, selectedVoice, voices, synthRef,
                 wordsRef, engineVoices, progressBy>>

handleStop ==
  /\ mounted
  /\ utts' = Cancelled(utts)
  /\ enginePaused' \in PausedAfterCancel(enginePaused)
  /\ isPlaying' = FALSE
  /\ isPaused' = FALSE
  /\ progress' = Pct(0)
  /\ progressBy' = 0
  /\ currentPosition' = 0
  /\ ev' = Event("stop", 0, "", <<"cancel">>)
  /\ UNCHANGED <<mounted, text, speed, selectedVoice, voices, synthRef, wordsRef, engineVoices>>

(***************************************************************************)
(* Callbacks of utterance u, delivered by the engine.  An utterance starts *)
(* and proceeds only while the engine is not paused; one that cancel()     *)
(* removed may still deliver what the engine had on its way.               *)
(***************************************************************************)
Proceeds(u) == utts[u].st = "speaking" /\ ~enginePaused

\* a start callback that also resets progress
onstartResetsProgress(u) ==
  /\ mounted
  /\ utts[u].st = "queued"
  /\ ~enginePaused
  /\ utts' = [utts EXCEPT ![u].st = "speaking", ![u].origin = "Idle"]
  /\ isPlaying' = TRUE
  /\ currentPosition' = 0
  /\ progress' = Pct(0)
  /\ progressBy' = 0
  /\ ev' = Event("start", u, "", << >>)
  /\ UNCHANGED <<mounted, text, isPaused, speed, selectedVoice, voices,
                 synthRef, wordsRef, enginePaused, engineVoices>>

\* utterance.onstart
onstart(u) ==
  /\ mounted
  /\ utts[u].st = "queued"
  /\ ~enginePaused
  /\ utts' = [utts EXCEPT ![u].st = "speaking", ![u].origin = "Idle"]
  /\ isPlaying' = TRUE
  /\ currentPosition' = 0
  /\ ev' = Event("start", u, "", << >>)
  /\ UNCHANGED <<mounted, text, isPaused, speed, selectedVoice, voices, progress,
                 synthRef, wordsRef, enginePaused, engineVoices, progressBy>>

\* utterance.onboundary with event.name and event.charIndex, an index into
\* the utterance's text
onboundary(u, name, charIndex) ==
  /\ mounted
  /\ Proceeds(u) \/ utts[u].st = "cancelledSpeaking"
  /\ charIndex \in 0..Len(utts[u].text)
  /\ IF name = "word"
     THEN /\ progress' = ProgressPercent(charIndex, Len(utts[u].text), Len(wordsRef))
          /\ progressBy' = u
          /\ currentPosition' = charIndex
     ELSE UNCHANGED <<progress, progressBy, currentPosition>>
  /\ ev' = Event("boundary", u, name, << >>)
  /\ UNCHANGED <<mounted, text, isPlaying, isPaused, speed, selectedVoice, voices, synthRef,
                 wordsRef, engine>>

\* a completion that forgets setProgress(100)
onendKeepsProgress(u) ==
  /\ mounted
  /\ Proceeds(u) \/ utts[u].st = "cancelledSpeaking"
  /\ utts' = [utts EXCEPT ![u] = DoneUtt]
  /\ isPlaying' = FALSE
  /\ isPaused' = FALSE
  /\ ev' = Event("end", u, "", <<ToastCompleted>>)
  /\ UNCHANGED <<mounted, progress, text, speed, selectedVoice, voices, currentPosition,
                 synthRef, wordsRef, enginePaused, engineVoices, progressBy>>

\* utterance.onend
onend(u) ==
  /\ mounted
  /\ Proceeds(u) \/ utts[u].st = "cancelledSpeaking"
  /\ utts' = [utts EXCEPT ![u] = DoneUtt]
  /\ isPlaying' = FALSE
  /\ isPaused' = FALSE
  /\ progress' = Pct(100)
  /\ progressBy' = 0
  /\ ev' = Event("end", u, "", <<ToastCompleted>>)
  /\ UNCHANGED <<mounted, text, speed, selectedVoice, voices, currentPosition, synthRef,
                 wordsRef, enginePaused, engineVoices>>

\* utterance.onerror: a synthesis failure of an utterance the engine holds,
\* or the error event of an utterance that cancel() removed
onerror(u) ==
  /\ mounted
  /\ utts[u].st # "done"
  /\ utts' = [utts EXCEPT ![u] = DoneUtt]
  /\ isPlaying' = FALSE
  /\ isPaused' = FALSE
  /\ ev' = Event("error", u, "", <<ToastError>>)
  /\ UNCHANGED <<mounted, text, speed, selectedVoice, voices, progress, currentPosition,
                 synthRef, wordsRef, enginePaused, engineVoices, progressBy>>

\* the boundary events the engine raises for utterance u: a word boundary at
\* any index of its text, a sentence boundary where its one sentence starts
BoundaryEvents(u) ==
  {<<"word", c>> : c \in 0..Len(utts[u].text)} \cup {<<"sentence", 0>>}

\* The playback operations and the utterance callbacks.  The speed and voice
\* pickers write only speed, selectedVoice and voices, which no action below
\* reads except to configure a new utterance; here they keep their initial
\* values.
Next ==
  \/ \E s \in Texts : setText(s)
  \/ handlePlay
  \/ handlePause
  \/ handleStop
  \/ \E u \in DOMAIN utts : onstart(u)
  \/ \E u \in DOMAIN utts : \E e \in BoundaryEvents(u) : onboundary(u, e[1], e[2])
  \/ \E u \in DOMAIN utts : onend(u)
  \/ \E u \in DOMAIN utts : onerror(u)

Spec == Init /\ [][Next]_vars

(***************************************************************************)
(* The pickers and the voice list with its listener.                       *)
(***************************************************************************)
\* the engine's voice list changes (voices finish loading, one is installed
\* or removed); the voiceschanged event it raises is delivered by loadVoices
engineLoadsVoices(list) ==
  /\ list # engineVoices
  /\ engineVoices' = list
  /\ UNCHANGED <<mounted, session, utts, enginePaused, progressBy, ev>>

\* loadVoices as the voiceschanged listener, which the effect's cleanup removes
loadVoices ==
  /\ mounted
  /\ voices' = voiceList(engineVoices)
  /\ selectedVoice' = SelectionAfterLoad(engineVoices, selectedVoice)
  /\ ev' = Event("voiceschanged", 0, "", << >>)
  /\ UNCHANGED <<mounted, text, isPlaying, isPaused, speed, progress, currentPosition,
                 synthRef, wordsRef, engine, progressBy>>

\* the items of the voice picker
VoiceItems == {voices[i].voiceURI : i \in 1..Len(voices)}

\* the texts typed in the runs with the pickers
SettingsTexts == {TextLead, TextOne}

\* how many utterances a run with the pickers or the voice list speaks
MaxPickerUtterances == 1

\* The playback operations, the callbacks and the three setters, with the
\* engine's voice list as it was at the mount.
NextSettings ==
  \/ \E s \in SettingsTexts : setText(s)
  \/ \E s \in Speeds : setSpeed(s)
  \/ \E id \in VoiceItems : setSelectedVoice(id)
  \/ handlePlayBlank
  \/ handlePlayResume
  \/ Len(utts) < MaxPickerUtterances /\ handlePlayFresh
  \/ handlePause
  \/ handleStop
  \/ \E u \in DOMAIN utts : onstart(u)
  \/ \E u \in DOMAIN utts : \E e \in BoundaryEvents(u) : onboundary(u, e[1], e[2])
  \/ \E u \in DOMAIN utts : onend(u)
  \/ \E u \in DOMAIN utts : onerror(u)

SpecSettings == Init /\ [][NextSettings]_vars

\* the component mounted before the engine has loaded its voices
InitVoices ==
  /\ text = << >>
  /\ isPlaying = FALSE
  /\ isPaused = FALSE
  /\ speed = "1"
  /\ progress = Pct(0)
  /\ currentPosition = 0
  /\ synthRef = 0
  /\ wordsRef = << >>
  /\ utts = << >>
  /\ enginePaused = FALSE
  /\ engineVoices = << >>
  /\ mounted = TRUE
  /\ voices = voiceList(engineVoices)
  /\ selectedVoice = SelectionAfterLoad(engineVoices, "")
  /\ progressBy = 0
  /\ ev = [op |-> "mount", u |-> 0, arg |-> "", calls |-> << >>, from |-> "Idle",
           was |-> Pct(0), by |-> 0]

\* The playback operations and the callbacks for one text, with the voice
\* picker, the engine's changing voice list and its listener.
NextVoices ==
  \/ setText(TextOne)
  \/ \E id \in VoiceItems : setSelectedVoice(id)
  \/ \E list \in VoiceLists : engineLoadsVoices(list)
  \/ loadVoices
  \/ handlePlayBlank
  \/ handlePlayResume
  \/ Len(utts) < MaxPickerUtterances /\ handlePlayFresh
  \/ handlePause
  \/ handleStop
  \/ \E u \in DOMAIN utts : onstart(u)
  \/ \E u \in DOMAIN utts : \E e \in BoundaryEvents(u) : onboundary(u, e[1], e[2])
  \/ \E u \in DOMAIN utts : onend(u)
  \/ \E u \in DOMAIN utts : onerror(u)

SpecVoices == InitVoices /\ [][NextVoices]_vars

(***************************************************************************)
(* The unmount.                                                            *)
(***************************************************************************)
\* the effect's cleanup at unmount: removeEventListener and nothing else
unmount ==
  /\ mounted
  /\ mounted' = FALSE
  /\ ev' = Event("unmount", 0, "", << >>)
  /\ UNCHANGED <<session, engine, progressBy>>

\* a callback of utterance u after the unmount: the engine goes on, React
\* drops the state writes of a component that is gone, the toasts still show
callbackUnmounted(u, op) ==
  /\ ~mounted
  /\ \/ /\ op = "start"
        /\ utts[u].st = "queued"
        /\ ~enginePaused
        /\ utts' = [utts EXCEPT ![u].st = "speaking", ![u].origin = "Idle"]
        /\ ev' = Event(op, u, "", << >>)
     \/ /\ op = "boundary"
        /\ Proceeds(u) \/ utts[u].st = "cancelledSpeaking"
        /\ utts' = utts
        /\ ev' = Event(op, u, "word", << >>)
     \/ /\ op = "end"
        /\ Proceeds(u) \/ utts[u].st = "cancelledSpeaking"
        /\ utts' = [utts EXCEPT ![u] = DoneUtt]
        /\ ev' = Event(op, u, "", <<ToastCompleted>>)
     \/ /\ op = "error"
        /\ utts[u].st # "done"
        /\ utts' = [utts EXCEPT ![u] = DoneUtt]
        /\ ev' = Event(op, u, "", <<ToastError>>)
  /\ UNCHANGED <<mounted, session, enginePaused, engineVoices, progressBy>>

CallbackNames == {"start", "boundary", "end", "error"}

NextTeardown ==
  \/ Next
  \/ unmount
  \/ \E u \in DOMAIN utts : \E op \in CallbackNames : callbackUnmounted(u, op)

SpecTeardown == Init /\ [][NextTeardown]_vars

(***************************************************************************)
(* Fairness of the engine: it starts the utterance it holds and finishes   *)
(* the one it is speaking, whenever it is not paused.                      *)
(***************************************************************************)
EngineStarts == \E u \in DOMAIN utts : onstart(u)

EngineFinishes == \E u \in DOMAIN utts : Proceeds(u) /\ (onend(u) \/ onerror(u))

SpecFair == Spec /\ WF_vars(EngineStarts) /\ WF_vars(EngineFinishes)

(***************************************************************************)
(* Properties.                                                             *)
(***************************************************************************)
Queued(u) == utts[u].st = "queued"

C2_StopResets ==
  ev.op = "stop" =>
    /\ ev.calls = <<"cancel">>
    /\ InFlight = {}
    /\ progress = Pct(0)
    /\ State = "Idle"

\* stop() from Paused with progress at 50
C2_Witness ==
  /\ ev.op = "stop"
  /\ ev.from = "Paused"
  /\ ev.was = Pct(50)
  /\ progress = Pct(0)

\* C3: pause() in a state other than Playing changes nothing of the session
\* or the engine and makes no engine call; in particular the session is not
\* Paused after a pause() made between play() and the start callback.
C3_PauseNoOpUnlessPlaying ==
  [][ev'.op = "pause" /\ State # "Playing" =>
       /\ UNCHANGED <<session, engine>>
       /\ ev'.calls = << >>]_vars

\* pause() between a fresh play() and its start callback
C3_Witness ==
  /\ ev.op = "pause"
  /\ ev.from = "Idle"
  /\ ev.calls = << >>
  /\ \E u \in DOMAIN utts : Queued(u)
  /\ State = "Idle"

\* C4: after a completion callback progress is exactly 100 and the state is
\* Idle, whatever they were, and exactly one notice, the completion notice,
\* has been raised.
C4_EndCompletes ==
  ev.op = "end" =>
    /\ progress = Pct(100)
    /\ State = "Idle"
    /\ ev.calls = <<ToastCompleted>>

\* a completion callback arriving in Paused with progress at 50
C4_Witness ==
  /\ ev.op = "end"
  /\ ev.from = "Paused"
  /\ ev.was = Pct(50)
  /\ progress = Pct(100)

\* C5: play() with a text whose trim is empty changes nothing of the session
\* (state and progress included) or the engine, makes no engine call and
\* raises exactly one notice.
C5_BlankPlayOnlyNotifies ==
  [][ev'.op = "play" /\ trim(text) = << >> =>
       /\ UNCHANGED <<session, engine>>
       /\ ev'.calls = <<ToastNoText>>]_vars

\* play() in Idle with a text of white space only
C5_Witness ==
  /\ ev.op = "play"
  /\ text # << >>
  /\ trim(text) = << >>
  /\ ev.from = "Idle"
  /\ State = "Idle"
  /\ ev.calls = <<ToastNoText>>

\* the transitions of the playback state the specification lists
ListedTransition ==
  \/ State = "Idle" /\ State' = "Playing" /\ ev'.op = "start"
  \/ State = "Playing" /\ State' = "Paused" /\ ev'.op = "pause"
  \/ State = "Paused" /\ State' = "Playing" /\ ev'.op = "play" /\ ev'.calls = <<"resume">>
  \/ State = "Playing" /\ State' = "Idle" /\ ev'.op \in {"stop", "end", "error"}
  \/ State = "Paused" /\ State' = "Idle" /\ ev'.op = "stop"

\* C6, as stated: every change of the playback state is a listed transition.
C6_OnlyListedTransitions ==
  [][State' # State => ListedTransition]_vars

\* C6, amended: every change of the playback state is a listed transition or
\* Paused -> Idle by a completion or error callback.
C6_OnlyListedOrCallbackFromPaused ==
  [][State' # State =>
       \/ ListedTransition
       \/ State = "Paused" /\ State' = "Idle" /\ ev'.op \in {"end", "error"}]_vars

\* an error callback has taken the session from Paused to Idle
C6_Witness ==
  /\ ev.op = "error"
  /\ ev.from = "Paused"
  /\ State = "Idle"

\* C7, as stated: after an error callback the state is Idle, the callback has
\* raised exactly one notice, the error notice, and called nothing else (no
\* speak, so no retry), and the session holds no progress that a word
\* boundary left.
C7_ErrorDiscardsProgress ==
  ev.op = "error" =>
    /\ State = "Idle"
    /\ ev.calls = <<ToastError>>
    /\ progressBy = 0 \/ progress = Pct(0)

\* what the error callback does do: Idle, one error notice, no call of the
\* engine, progress as it was
C7_ErrorForcesIdleKeepsProgress ==
  ev.op = "error" =>
    /\ State = "Idle"
    /\ ev.calls = <<ToastError>>
    /\ progress = ev.was
    /\ progressBy = ev.by

\* C8: progress is in [0, 100] in every reachable state, also after a word
\* boundary of an utterance whose token list a later play() has replaced.
C8_ProgressInRange ==
  /\ FracLeq(Pct(0), progress)
  /\ FracLeq(progress, Pct(100))
  /\ progress.den > 0

\* a word boundary of a cancelled utterance, computed with the token list of
\* another text, has left a progress above 0
C8_Witness ==
  /\ ev.op = "boundary"
  /\ ev.arg = "word"
  /\ utts[ev.u].st = "cancelledSpeaking"
  /\ Len(split(utts[ev.u].text)) # Len(wordsRef)
  /\ progress # Pct(0)

\* C9, as stated: a word boundary of the utterance being spoken whose
\* charIndex is not below the last position never lowers progress.
C9_ProgressNeverDecreases ==
  [][/\ ev'.op = "boundary"
     /\ ev'.arg = "word"
     /\ utts[ev'.u].st = "speaking"
     /\ currentPosition' >= currentPosition
     => FracLeq(progress, progress')]_vars

\* C9, amended: a word boundary of the utterance being spoken whose charIndex
\* is not below the last position never lowers a progress that a word
\* boundary of the same utterance wrote.
C9_BoundaryProgressNeverDecreases ==
  [][/\ ev'.op = "boundary"
     /\ ev'.arg = "word"
     /\ utts[ev'.u].st = "speaking"
     /\ progressBy = ev'.u
     /\ currentPosition' >= currentPosition
     => FracLeq(progress, progress')]_vars

\* a later word boundary of the utterance being spoken has raised the
\* progress an earlier one wrote
C9_Witness ==
  /\ ev.op = "boundary"
  /\ ev.arg = "word"
  /\ utts[ev.u].st = "speaking"
  /\ ev.by = ev.u
  /\ progress # ev.was
  /\ FracLeq(ev.was, progress)

\* the reference formula of the specification: the tokens are those of the
\* utterance's own text
ReferenceProgress(t, charIndex) ==
  LET tokenCount == Len(split(t))
      wordIndex  == (charIndex * tokenCount) \div Len(t)
  IN  Frac(100 * wordIndex, tokenCount)

\* C10, as stated: after a word boundary progress is the reference formula
\* applied to the utterance's text and the charIndex (50 for "Hello world" at
\* charIndex 6), and after the end callback the session is Idle at 100.
C10_ReferenceFormula ==
  /\ ev.op = "boundary" /\ ev.arg = "word" =>
       progress = ReferenceProgress(utts[ev.u].text, currentPosition)
  /\ ev.op = "end" => State = "Idle" /\ progress = Pct(100)

\* the same for the word boundaries of the utterance being spoken only
C10_ReferenceFormulaWhileSpoken ==
  /\ ev.op = "boundary" /\ ev.arg = "word" /\ utts[ev.u].st = "speaking" =>
       progress = ReferenceProgress(utts[ev.u].text, currentPosition)
  /\ ev.op = "end" => State = "Idle" /\ progress = Pct(100)

\* the scenario: "Hello world", a word boundary at charIndex 6 after one at 0
C10_HelloWorldAtSix ==
  /\ ev.op = "boundary"
  /\ ev.arg = "word"
  /\ utts[ev.u].text = TextHello
  /\ utts[ev.u].st = "speaking"
  /\ ev.by = ev.u
  /\ ev.was = Pct(0)
  /\ currentPosition = 6
  /\ progress = Pct(50)

\* C11: play() made while Paused with text that is not blank asks the engine
\* to resume and leaves the state Playing at once; it makes no cancel, no
\* speak and no new utterance, keeps the token list and keeps progress.
C11_ResumeOnlyResumes ==
  [][ev'.op = "play" /\ isPaused /\ trim(text) # << >>
       => /\ ev'.calls = <<"resume">>
          /\ State' = "Playing"
          /\ ~enginePaused'
          /\ UNCHANGED <<utts, synthRef, wordsRef, progress, progressBy>>]_vars

\* a resume made after the text was edited while Paused, part way through
C11_Witness ==
  /\ ev.op = "play"
  /\ ev.calls = <<"resume">>
  /\ ev.from = "Paused"
  /\ State = "Playing"
  /\ progress \notin {Pct(0), Pct(100)}
  /\ wordsRef # split(text)
  /\ \E u \in DOMAIN utts : Proceeds(u)

\* the utterances the engine holds before and after a step
StaysInFlight(u) ==
  /\ utts[u].st \in {"queued", "speaking"}
  /\ utts'[u].st \in {"queued", "speaking"}

C13_SelectionPinned ==
  [][/\ ev'.op = "voiceschanged" /\ selectedVoice # ""
          => selectedVoice' = selectedVoice
     /\ engineVoices' # engineVoices => selectedVoice' = selectedVoice
     /\ selectedVoice' # selectedVoice
          => \/ ev'.op = "setVoice"
             \/ ev'.op = "voiceschanged" /\ selectedVoice = ""]_vars

\* a refresh that kept the selection although the new list does not have it
\* and has another English local voice
C13_Witness ==
  /\ ev.op = "voiceschanged"
  /\ selectedVoice = VoiceAlice.voiceURI
  /\ voices = voiceList(engineVoices)
  /\ findVoiceByURI(engineVoices, selectedVoice) = 0
  /\ findDefaultVoice(engineVoices) # 0

\* C14: the unmount cancels the utterance the engine holds, so no callback
\* is delivered after it.
C14_UnmountCancels ==
  ~mounted => InFlight = {} /\ ev.op = "unmount"

\* the URIs of the engine's voices
EngineVoiceURIs == {engineVoices[i].voiceURI : i \in 1..Len(engineVoices)}

\* C15: a fresh play() whose selected voice is missing from the component's
\* list or from the engine's submits the utterance with the engine's default
\* voice and raises no notification, as a play() with no voice selected does.
C15_MissingVoiceFallsBack ==
  [][(/\ ev'.op = "play"
      /\ Len(utts') > Len(utts)
      /\ selectedVoice \notin VoiceItems \/ selectedVoice \notin EngineVoiceURIs)
       => /\ utts'[Len(utts')] =
               [text |-> text, rate |-> parseFloat(speed), voice |-> "null",
                st |-> "queued", origin |-> State]
          /\ ev'.calls = <<"cancel", "speak">>
          /\ UNCHANGED <<isPlaying, isPaused, progress, selectedVoice, voices>>]_vars

\* a play made with a selection that a refresh dropped from the list
C15_Witness ==
  /\ ev.op = "play"
  /\ ev.calls = <<"cancel", "speak">>
  /\ selectedVoice # ""
  /\ selectedVoice \notin VoiceItems
  /\ utts[synthRef].st = "queued"
  /\ utts[synthRef].voice = "null"

\* a play made with a selection the component lists and the engine has lost
C15_WitnessEngineLost ==
  /\ ev.op = "play"
  /\ ev.calls = <<"cancel", "speak">>
  /\ selectedVoice \in VoiceItems
  /\ selectedVoice \notin EngineVoiceURIs
  /\ utts[synthRef].st = "queued"
  /\ utts[synthRef].voice = "null"

\* C16: isPlaying and isPaused are never both true, whatever the order of
\* play, pause, stop and the utterance callbacks.
C16_NeverPlayingAndPaused == ~(isPlaying /\ isPaused)

\* Paused by a pause made while an utterance still waits for its start
\* callback, which would set isPlaying
C16_Witness ==
  /\ ev.op = "pause"
  /\ ev.calls = <<"pause">>
  /\ State = "Paused"
  /\ \E u \in DOMAIN utts : Queued(u)

\* a callback of an utterance that cancel() removed
Stale(u) == utts[u].st \in {"cancelledQueued", "cancelledSpeaking"}

\* C17: a boundary, end or error callback of an utterance that stop()
\* cancelled or a later fresh play() superseded, delivered after the cancel,
\* changes neither the playback state nor progress and raises no notification.
C17_StaleCallbacksIgnored ==
  [][ev'.op \in {"boundary", "end", "error"} /\ Stale(ev'.u)
       => /\ UNCHANGED <<isPlaying, isPaused, progress>>
          /\ ev'.calls = << >>]_vars

\* the elements of a sequence
Range(seq) == {seq[i] : i \in DOMAIN seq}

\* C18: the engine never holds more than one utterance of this component:
\* every speak() follows a cancel() of the same handlePlay, and the resume
\* path calls neither.
C18_AtMostOneInFlight ==
  /\ Cardinality(InFlight) <= 1
  /\ "speak" \in Range(ev.calls) => ev.calls = <<"cancel", "speak">>
  /\ "resume" \in Range(ev.calls) => ev.calls = <<"resume">>

\* a fresh play made while an utterance was being spoken
C18_Witness ==
  /\ ev.op = "play"
  /\ ev.calls = <<"cancel", "speak">>
  /\ ev.from = "Playing"
  /\ \E u \in DOMAIN utts : utts[u].st = "cancelledSpeaking"
  /\ Cardinality(InFlight) = 1

\* C19: play() and the start callback leave progress as it is; progress
\* changes only by a word boundary callback, by completion (to 100) and by
\* stop (to 0), so a fresh playback begins with the progress left over.
C19_ProgressWriters ==
  [][/\ ev'.op \in {"play", "start"} => progress' = progress
     /\ progress' # progress
          => \/ ev'.op = "boundary" /\ ev'.arg = "word"
             \/ ev'.op = "end" /\ progress' = Pct(100)
             \/ ev'.op = "stop" /\ progress' = Pct(0)]_vars

\* a second playback started with the 100 its predecessor's completion left
C19_Witness ==
  /\ ev.op = "start"
  /\ ev.u = 2
  /\ ev.was = Pct(100)
  /\ progress = Pct(100)
  /\ State = "Playing"

\* a play() made with text that is not blank
PlayedNonBlank == ev.op = "play" /\ ev.calls # <<ToastNoText>>

\* C20: with the engine delivering start, and end or error, to the utterance
\* it holds whenever it is not paused, every play() with text that is not
\* blank is followed by a state that is Idle with no utterance in the
\* engine; a session paused on the way is not held against this.
C20_PlayLeadsToIdle ==
  PlayedNonBlank ~> (State = "Idle" /\ InFlight = {}) \/ isPaused

\* what does hold of the fair engine: the only play() not followed by such a
\* state is one whose utterance waits in an engine that stop() left paused
PlayLeadsToIdleUnlessEnginePaused ==
  PlayedNonBlank ~> (State = "Idle" /\ InFlight = {}) \/ isPaused \/ enginePaused

====
